---- MODULE Spec2Model ----
(***************************************************************************)
(* RSVP backend: the address geocoder (services/geocoding_service.py), the *)
(* RSVP notifier (services/email_service.py) and the attendee routes       *)
(* (routes/attendees.py, app.py).                                          *)
(*                                                                         *)
(* Python strings are sequences of one-character strings.  Python values   *)
(* that come out of a JSON body are tagged records [t, v].  Coordinates    *)
(* are whole degrees: float() is modelled on integers and on decimal       *)
(* integer literals.                                                       *)
(***************************************************************************)
EXTENDS Integers, Sequences, FiniteSets, TLC

VARIABLES
    address_full,   \* geocoder: the argument of geocode_address
    address_parts,  \* geocoder: the fields address_full was written from
    environ,        \* geocoder: the process environment read by os.getenv
    geo_pc,         \* geocoder: "ready" before the call, "returned" after it
    geo_out,        \* geocoder: how the call ended
    http_log,       \* geocoder: the outbound requests.get calls, in order
    simplified_address,  \* geocoder: the fallback's simplified query, once built
    events,         \* the Event table, with each event's host email
    n_event,        \* notifier: the event of the calls (its position in events)
    n_attendee,     \* notifier: the attendee of the calls
    notify_calls,   \* notifier: how each call so far ended
    attendees,      \* routes: the Attendee table, in id order
    requests,       \* routes: each request's position, body and answer
    outbox          \* routes: the notifications attempted, in order

geo_vars == <<address_full, address_parts, environ, geo_pc, geo_out, http_log, simplified_address>>

----------------------------------------------------------------------------
(* Python values *)

PyNone == [t |-> "None"]

PyNum(n) == [t |-> "num", v |-> n]

PyStr(s) == [t |-> "str", v |-> s]

PyList(l) == [t |-> "list", v |-> l]

PyDict(d) == [t |-> "dict", v |-> d]

\* bool(x) of a value
Truthy(x) ==
    CASE x.t = "None" -> FALSE
      [] x.t = "num"  -> x.v # 0
      [] x.t = "str"  -> x.v # << >>
      [] x.t = "list" -> x.v # << >>
      [] x.t = "dict" -> DOMAIN x.v # {}

NoExc == "none"

Ok(val) == [exc |-> NoExc, val |-> val]

Raise(e) == [exc |-> e, val |-> PyNone]

\* x[key] with a string key
Subscript(x, key) ==
    IF x.t = "dict"
    THEN IF key \in DOMAIN x.v THEN Ok(x.v[key]) ELSE Raise("KeyError")
    ELSE Raise("TypeError")

\* x[0]
Subscript0(x) ==
    CASE x.t = "list" -> IF x.v # << >> THEN Ok(x.v[1]) ELSE Raise("IndexError")
      [] x.t = "str"  -> IF x.v # << >> THEN Ok(PyStr(<<x.v[1]>>)) ELSE Raise("IndexError")
      [] x.t = "dict" -> Raise("KeyError")
      [] OTHER        -> Raise("TypeError")

\* x.get(key): only a dict has the method
DictGet(x, key) ==
    IF x.t = "dict"
    THEN IF key \in DOMAIN x.v THEN Ok(x.v[key]) ELSE Ok(PyNone)
    ELSE Raise("AttributeError")

----------------------------------------------------------------------------
(* Characters and strings *)

IsSpace(c) == c \in {" ", "\t", "\n"}

IsDigit(c) == c \in {"0", "1", "2", "3", "4", "5", "6", "7", "8", "9"}

NotComma(c) == c # ","

\* the character classes \s, \d and [^,]
InClass(c, class) ==
    CASE class = "space" -> IsSpace(c)
      [] class = "digit" -> IsDigit(c)
      [] class = "field" -> NotComma(c)

UpperLetters == <<"A", "B", "C", "D", "E", "F", "G", "H", "I", "J", "K", "L", "M", "N", "O", "P", "Q", "R", "S", "T", "U", "V", "W", "X", "Y", "Z">>

LowerLetters == <<"a", "b", "c", "d", "e", "f", "g", "h", "i", "j", "k", "l", "m", "n", "o", "p", "q", "r", "s", "t", "u", "v", "w", "x", "y", "z">>

\* [A-Z]
IsUpper(c) == \E i \in 1..Len(UpperLetters) : UpperLetters[i] = c

\* case folding of re.IGNORECASE on the letters the street types use
Lower(c) ==
    IF IsUpper(c)
    THEN LowerLetters[CHOOSE i \in 1..Len(UpperLetters) : UpperLetters[i] = c]
    ELSE IF c = "Ç" THEN "ç" ELSE c

SetMin(S) == CHOOSE x \in S : \A y \in S : x <= y

SetMax(S) == CHOOSE x \in S : \A y \in S : x >= y

\* one past the longest run of characters of the class that starts at i
SpanEnd(s, i, class) ==
    SetMin({j \in i..(Len(s) + 1) : j = Len(s) + 1 \/ ~InClass(s[j], class)})

\* str.strip()
Strip(s) ==
    LET keep == {i \in 1..Len(s) : ~IsSpace(s[i])}
    IN  IF keep = {} THEN << >> ELSE SubSeq(s, SetMin(keep), SetMax(keep))

\* str.split(',')[0]
SplitFirst(s) == SubSeq(s, 1, SpanEnd(s, 1, "field") - 1)

DigitValue(c) ==
    CASE c = "0" -> 0 [] c = "1" -> 1 [] c = "2" -> 2 [] c = "3" -> 3 [] c = "4" -> 4
      [] c = "5" -> 5 [] c = "6" -> 6 [] c = "7" -> 7 [] c = "8" -> 8 [] c = "9" -> 9

RECURSIVE DigitsValue(_)
DigitsValue(s) ==
    IF s = << >> THEN 0
    ELSE 10 * DigitsValue(SubSeq(s, 1, Len(s) - 1)) + DigitValue(s[Len(s)])

\* float(x): a number is itself, a string is parsed as a signed decimal
\* integer (surrounding blanks allowed), anything else is a TypeError
PyFloat(x) ==
    CASE x.t = "num" -> Ok(x.v)
      [] x.t = "str" ->
            LET s == Strip(x.v)
                signed == s # << >> /\ s[1] \in {"-", "+"}
                digits == IF signed THEN Tail(s) ELSE s
            IN  IF digits # << >> /\ \A i \in 1..Len(digits) : IsDigit(digits[i])
                THEN Ok(IF signed /\ s[1] = "-"
                        THEN 0 - DigitsValue(digits) ELSE DigitsValue(digits))
                ELSE Raise("ValueError")
      [] OTHER -> Raise("TypeError")

----------------------------------------------------------------------------
(* The three regular expressions of _geocode_with_nominatim *)

NoMatch == [matched |-> FALSE, group1 |-> << >>, group2 |-> << >>]

Match(g1, g2) == [matched |-> TRUE, group1 |-> g1, group2 |-> g2]

StreetTypes == <<<<"R", "u", "a">>, <<"A", "v", ".">>, <<"A", "v", "e", "n", "i", "d", "a">>, <<"T", "r", "a", "v", "e", "s", "s", "a">>, <<"A", "l", "a", "m", "e", "d", "a">>, <<"P", "r", "a", "ç", "a">>>>

StartsWithIgnoreCase(s, tok) ==
    /\ Len(s) >= Len(tok)
    /\ \A i \in 1..Len(tok) : Lower(s[i]) = Lower(tok[i])

\* <tok>\s+([^,]+) at the start of s: \s+ is greedy and gives back one blank
\* when nothing but a comma or the end follows it
StreetTypeMatch(s, tok) ==
    LET from == Len(tok) + 1
        ws_end == SpanEnd(s, from, "space")
        name_end == SpanEnd(s, ws_end, "field")
    IN  IF ~StartsWithIgnoreCase(s, tok) \/ ws_end = from THEN NoMatch
        ELSE IF name_end > ws_end THEN Match(SubSeq(s, ws_end, name_end - 1), << >>)
        ELSE IF ws_end - from >= 2 THEN Match(SubSeq(s, ws_end - 1, ws_end - 1), << >>)
        ELSE NoMatch

\* the street pattern never matching: the street type stays in the street name
street_match_skipped(s) == NoMatch

\* re.match(r'^(?:Rua|Av\.|Avenida|Travessa|Alameda|Praça)\s+([^,]+)', s, re.IGNORECASE)
street_match(s) ==
    LET hits == {k \in 1..Len(StreetTypes) : StreetTypeMatch(s, StreetTypes[k]).matched}
    IN  IF hits = {} THEN NoMatch ELSE StreetTypeMatch(s, StreetTypes[SetMin(hits)])

Commas(s) == {i \in 1..Len(s) : s[i] = ","}

NumberAt(s, i) ==
    LET d == SpanEnd(s, i + 1, "space")
        e == SpanEnd(s, d, "digit")
    IN  IF e > d THEN Match(SubSeq(s, d, e - 1), << >>) ELSE NoMatch

\* re.search(r',\s*(\d+)', s)
number_match(s) ==
    LET hits == {i \in Commas(s) : NumberAt(s, i).matched}
    IN  IF hits = {} THEN NoMatch ELSE NumberAt(s, SetMin(hits))

\* \s*-\s*([A-Z]{2}) at position j
StateAt(s, j) ==
    LET dash == SpanEnd(s, j, "space")
        st == SpanEnd(s, dash + 1, "space")
    IN  IF /\ dash <= Len(s)
           /\ s[dash] = "-"
           /\ st + 1 <= Len(s)
           /\ IsUpper(s[st])
           /\ IsUpper(s[st + 1])
        THEN Match(SubSeq(s, st, st + 1), << >>)
        ELSE NoMatch

\* ,\s*([^,]+)\s*-\s*([A-Z]{2}) at the comma at i: the first \s* and [^,]+ are
\* greedy, so the city group starts at the first non-blank and is the longest
\* one a dash and a state follow; failing that the first \s* gives back one
\* blank, which is then the whole city group
CityStateAt(s, i) ==
    LET start == SpanEnd(s, i + 1, "space")
        seg_end == SpanEnd(s, i + 1, "field")
        ends == {e \in start..(seg_end - 1) : StateAt(s, e + 1).matched}
    IN  IF ends # {}
        THEN Match(SubSeq(s, start, SetMax(ends)), StateAt(s, SetMax(ends) + 1).group1)
        ELSE IF start > i + 1 /\ StateAt(s, start).matched
        THEN Match(SubSeq(s, start - 1, start - 1), StateAt(s, start).group1)
        ELSE NoMatch

\* re.search(r',\s*([^,]+)\s*-\s*([A-Z]{2})', s)
city_state_match(s) ==
    LET hits == {i \in Commas(s) : CityStateAt(s, i).matched}
    IN  IF hits = {} THEN NoMatch ELSE CityStateAt(s, SetMin(hits))

----------------------------------------------------------------------------
(* Outbound HTTP: what requests.get(...), raise_for_status() and .json() give *)

NetworkError == [neterr |-> TRUE, status |-> 0, json_ok |-> FALSE, data |-> PyNone]

HttpStatus(n) == [neterr |-> FALSE, status |-> n, json_ok |-> FALSE, data |-> PyNone]

BadJson == [neterr |-> FALSE, status |-> 200, json_ok |-> FALSE, data |-> PyNone]

Json(data) == [neterr |-> FALSE, status |-> 200, json_ok |-> TRUE, data |-> data]

\* requests.get raises on a network error, raise_for_status on a 4xx/5xx
\* status (both RequestException), .json() on a body that is not JSON
\* (JSONDecodeError, a ValueError)
HttpGetJson(resp) ==
    IF resp.neterr THEN Raise("RequestException")
    ELSE IF resp.status >= 400 /\ resp.status < 600 THEN Raise("RequestException")
    ELSE IF ~resp.json_ok THEN Raise("ValueError")
    ELSE Ok(resp.data)

NoCoords == <<PyNone, PyNone>>

Coords(lat, lon) == <<PyNum(lat), PyNum(lon)>>

\* how a function ends: the exception it lets through (NoExc when it
\* returns), the pair it returns, and the outbound calls it made
Returns(ret, calls) == [exc |-> NoExc, ret |-> ret, calls |-> calls]

Throws(e, calls) == [exc |-> e, ret |-> NoCoords, calls |-> calls]

HttpCall(provider, query, resp) == [provider |-> provider, query |-> query, response |-> resp]

\* the range check with the longitude left out
InBoundsLatitudeOnly(lat, lon) == -90 <= lat /\ lat <= 90

\* -90 <= lat <= 90 and -180 <= lon <= 180
InBounds(lat, lon) == -90 <= lat /\ lat <= 90 /\ -180 <= lon /\ lon <= 180

\* lat and lon and <bounds>: a float is truthy unless it is 0.0
ValidCoords(lat, lon) == lat # 0 /\ lon # 0 /\ InBounds(lat, lon)

os_getenv(name) == IF name \in DOMAIN environ THEN PyStr(environ[name]) ELSE PyNone

PLACEHOLDER_KEY == <<"S", "U", "A", "_", "C", "H", "A", "V", "E", "_", "A", "Q", "U", "I">>

\* the try body of _geocode_with_google after the request: [exc, ret]
GoogleParse(data) ==
    LET status == DictGet(data, "status")
        results == DictGet(data, "results")
        result == Subscript0(results.val)
        geometry == Subscript(result.val, "geometry")
        location == Subscript(geometry.val, "location")
        lat_raw == Subscript(location.val, "lat")
        lat == PyFloat(lat_raw.val)
        lng_raw == Subscript(location.val, "lng")
        lon == PyFloat(lng_raw.val)
        steps == <<result, geometry, location, lat_raw, lat, lng_raw, lon>>
        failed == {k \in 1..Len(steps) : steps[k].exc # NoExc}
    IN  IF status.exc # NoExc THEN [exc |-> status.exc, ret |-> NoCoords]
        ELSE IF status.val = PyStr(<<"O", "K">>) /\ Truthy(results.val)
        THEN IF failed # {} THEN [exc |-> steps[SetMin(failed)].exc, ret |-> NoCoords]
             ELSE IF ValidCoords(lat.val, lon.val)
             THEN [exc |-> NoExc, ret |-> Coords(lat.val, lon.val)]
             ELSE [exc |-> NoExc, ret |-> NoCoords]
        ELSE [exc |-> NoExc, ret |-> NoCoords]

\* the handlers without the one for requests.RequestException
GoogleCaughtNoNetwork == {"ValueError", "KeyError"}

\* except requests.RequestException / except (ValueError, KeyError)
GoogleCaught == {"RequestException", "ValueError", "KeyError"}

_geocode_with_google(address, resp) ==
    LET api_key == os_getenv("GOOGLE_GEOCODING_API_KEY")
        call == <<HttpCall("google", address, resp)>>
        data == HttpGetJson(resp)
        parsed == GoogleParse(data.val)
    IN  IF ~Truthy(api_key) \/ api_key = PyStr(PLACEHOLDER_KEY) THEN Returns(NoCoords, << >>)
        ELSE IF data.exc # NoExc
        THEN IF data.exc \in GoogleCaught THEN Returns(NoCoords, call) ELSE Throws(data.exc, call)
        ELSE IF parsed.exc # NoExc
        THEN IF parsed.exc \in GoogleCaught THEN Returns(NoCoords, call) ELSE Throws(parsed.exc, call)
        ELSE Returns(parsed.ret, call)

Sep == <<",", " ">>

\* the simplification with "if not street_name" for "if not (street_name and city)"
SimplifiedAddressNoCityCheck(address) ==
    LET street_name == Strip(SplitFirst(address))
    IN  [ok |-> street_name # << >>, q |-> street_name \o Sep \o <<"B", "r", "a", "s", "i", "l">>]

\* lines 85-120: the simplified query, or that street or city is missing
SimplifiedAddress(address) ==
    LET sm == street_match(address)
        street_name == IF sm.matched THEN Strip(sm.group1) ELSE Strip(SplitFirst(address))
        nm == number_match(address)
        cm == city_state_match(address)
        city == Strip(cm.group1)
        state == Strip(cm.group2)
    IN  IF ~(street_name # << >> /\ cm.matched /\ city # << >>)
        THEN [ok |-> FALSE, q |-> << >>]
        ELSE [ok |-> TRUE,
              q |-> IF nm.matched
                    THEN IF state # << >>
                         THEN street_name \o Sep \o nm.group1 \o Sep \o city \o Sep \o state \o Sep \o <<"B", "r", "a", "s", "i", "l">>
                         ELSE street_name \o Sep \o nm.group1 \o Sep \o city \o Sep \o <<"B", "r", "a", "s", "i", "l">>
                    ELSE IF state # << >>
                         THEN street_name \o Sep \o city \o Sep \o state \o Sep \o <<"B", "r", "a", "s", "i", "l">>
                         ELSE street_name \o Sep \o city \o Sep \o <<"B", "r", "a", "s", "i", "l">>]

\* lines 139-149: [exc, ret]
NominatimParse(data) ==
    LET result == Subscript0(data)
        lat_raw == DictGet(result.val, "lat")
        lat == PyFloat(lat_raw.val)
        lon_raw == DictGet(result.val, "lon")
        lon == PyFloat(lon_raw.val)
        steps == <<result, lat_raw, lat, lon_raw, lon>>
        failed == {k \in 1..Len(steps) : steps[k].exc # NoExc}
    IN  IF ~Truthy(data) THEN [exc |-> NoExc, ret |-> NoCoords]
        ELSE IF data.t = "num" THEN [exc |-> "TypeError", ret |-> NoCoords]
        ELSE IF failed # {} THEN [exc |-> steps[SetMin(failed)].exc, ret |-> NoCoords]
        ELSE IF ValidCoords(lat.val, lon.val)
        THEN [exc |-> NoExc, ret |-> Coords(lat.val, lon.val)]
        ELSE [exc |-> NoExc, ret |-> NoCoords]

\* except (requests.RequestException, ValueError, KeyError)
NominatimCaught == {"RequestException", "ValueError", "KeyError"}

\* "if address_full is None" for "if not address_full"
AddressIsNone(address) == address = PyNone

\* if not address_full
AddressMissing(address) == ~Truthy(address)

\* lines 106-153: the request for the simplified query and its reading
NominatimRequest(simplified, resp) ==
    LET call == <<HttpCall("nominatim", simplified.q, resp)>>
        data == HttpGetJson(resp)
        parsed == NominatimParse(data.val)
    IN  IF ~simplified.ok THEN Returns(NoCoords, << >>)
        ELSE IF data.exc # NoExc
        THEN IF data.exc \in NominatimCaught THEN Returns(NoCoords, call) ELSE Throws(data.exc, call)
        ELSE IF parsed.exc # NoExc
        THEN IF parsed.exc \in NominatimCaught THEN Returns(NoCoords, call) ELSE Throws(parsed.exc, call)
        ELSE Returns(parsed.ret, call)

----------------------------------------------------------------------------
(* Geocoder inputs *)

\* how far beyond the valid range the sampled coordinates go
CoordOver == 1

\* an address in the documented layout
\* "<Street>, <Number>, <Neighborhood>, <City> - <State>, CEP <zip>, Brasil",
\* any part but the street name possibly left out (<< >>)
FormatAddress(p) ==
    (IF p.type # << >> THEN p.type \o <<" ">> ELSE << >>)
    \o p.name
    \o (IF p.number # << >> THEN <<",", " ">> \o p.number ELSE << >>)
    \o (IF p.neighborhood # << >> THEN <<",", " ">> \o p.neighborhood ELSE << >>)
    \o (IF p.city # << >> THEN <<",", " ">> \o p.city \o <<" ", "-", " ">> \o p.state ELSE << >>)
    \o (IF p.zip # << >> THEN <<",", " ", "C", "E", "P", " ">> \o p.zip ELSE << >>)
    \o <<",", " ", "B", "r", "a", "s", "i", "l">>

AddressParts ==
    [type : {<< >>, <<"R", "u", "a">>, <<"a", "v", ".">>, <<"P", "r", "a", "ç", "a">>},
     name : {<<"d", "a", "s", " ", "F", "l", "o", "r", "e", "s">>, <<"B", "r", "a", "s", "i", "l">>},
     number : {<< >>, <<"1", "2", "3">>},
     neighborhood : {<< >>, <<"C", "e", "n", "t", "r", "o">>},
     city : {<< >>, <<"R", "i", "o", " ", "d", "e", " ", "J", "a", "n", "e", "i", "r", "o">>},
     state : {<<"R", "J">>},
     zip : {<< >>, <<"2", "0", "0", "0", "0", "-", "0", "0", "0">>}]

IrregularAddresses ==
    {<< >>,
     <<" ">>,
     <<"R", "u", "a", " ", "d", "a", "s", " ", "F", "l", "o", "r", "e", "s", " ", "1", "2", "3", " ", "C", "e", "n", "t", "r", "o">>,
     <<",", " ", "1", "2", "3", ",", " ", "R", "i", "o", " ", "d", "e", " ", "J", "a", "n", "e", "i", "r", "o", " ", "-", " ", "R", "J">>,
     <<"R", "u", "a", " ", ",", " ", "1", "2", ",", " ", "R", "i", "o", " ", "d", "e", " ", "J", "a", "n", "e", "i", "r", "o", " ", "-", " ", "R", "J">>,
     <<"R", "u", "a", " ", " ", ",", " ", "1", "2", ",", " ", "R", "i", "o", " ", "d", "e", " ", "J", "a", "n", "e", "i", "r", "o", " ", "-", " ", "R", "J">>,
     <<"R", "u", "a", " ", "d", "a", "s", " ", "F", "l", "o", "r", "e", "s", ",", " ", "1", "2", "3", ",", " ", "-", " ", "R", "J">>,
     <<"R", "u", "a", " ", "d", "a", "s", " ", "F", "l", "o", "r", "e", "s", ",", " ", "1", "2", "3", ",", " ", "R", "i", "o", " ", "d", "e", " ", "J", "a", "n", "e", "i", "r", "o", " ", "-", " ", "r", "j">>,
     <<"R", "u", "a", "z", "i", "n", "h", "a", " ", "T", "o", "r", "t", "a", ",", "4", "5", ",", "N", "i", "t", "e", "r", "ó", "i", "-", "R", "J">>,
     <<"A", "v", ".", " ", "B", "r", "a", "s", "i", "l", ",", " ", "1", "0", " ", "-", " ", "B", "L", " ", "2", ",", " ", "C", "e", "n", "t", "r", "o", ",", " ", "R", "i", "o", " ", "d", "e", " ", "J", "a", "n", "e", "i", "r", "o", " ", "-", " ", "R", "J">>}

NoParts ==
    [type |-> << >>, name |-> << >>, number |-> << >>, neighborhood |-> << >>,
     city |-> << >>, state |-> << >>, zip |-> << >>]

Environs ==
    {[SENDGRID_API_KEY |-> <<"S", "G", ".", "k", "e", "y">>],
     [SENDGRID_API_KEY |-> <<"S", "G", ".", "k", "e", "y">>, GOOGLE_GEOCODING_API_KEY |-> << >>],
     [SENDGRID_API_KEY |-> <<"S", "G", ".", "k", "e", "y">>, GOOGLE_GEOCODING_API_KEY |-> PLACEHOLDER_KEY],
     [SENDGRID_API_KEY |-> <<"S", "G", ".", "k", "e", "y">>, GOOGLE_GEOCODING_API_KEY |-> <<"A", "I", "z", "a", "-", "k", "e", "y">>]}

\* (lat, lon) pairs a provider may report: inside, on the edge of, and
\* outside the valid range, and on the equator or the prime meridian
SampleCoords ==
    {<<-23, -43>>, <<90, 180>>, <<-90, -180>>, <<0, -43>>, <<51, 0>>,
     <<90 + CoordOver, 10>>, <<-90 - CoordOver, 10>>,
     <<10, 180 + CoordOver>>, <<10, -180 - CoordOver>>, <<200, 50>>}

GoogleBody(status, results) == PyDict([status |-> status, results |-> results])

GoogleResult(lat, lng) ==
    PyDict([geometry |-> PyDict([location |-> PyDict([lat |-> lat, lng |-> lng])]),
            formatted_address |-> PyStr(<<"B", "r", "a", "s", "i", "l">>)])

GoogleResponses ==
    {NetworkError, HttpStatus(500), BadJson,
     Json(PyList(<< >>)),
     Json(PyDict([error_message |-> PyStr(<<"d", "e", "n", "i", "e", "d">>)])),
     Json(GoogleBody(PyStr(<<"Z", "E", "R", "O", "_", "R", "E", "S", "U", "L", "T", "S">>), PyList(<< >>))),
     Json(GoogleBody(PyStr(<<"O", "K">>), PyList(<< >>))),
     Json(GoogleBody(PyStr(<<"O", "K">>), PyList(<<PyStr(<<"x">>)>>))),
     Json(GoogleBody(PyStr(<<"O", "K">>), PyList(<<PyDict(<< >>)>>))),
     Json(GoogleBody(PyStr(<<"O", "K">>), PyList(<<PyDict([geometry |-> PyNone])>>))),
     Json(GoogleBody(PyStr(<<"O", "K">>), PyList(<<GoogleResult(PyNone, PyNum(-43))>>))),
     Json(GoogleBody(PyStr(<<"O", "K">>), PyList(<<GoogleResult(PyStr(<<"a", "b", "c">>), PyNum(-43))>>))),
     Json(GoogleBody(PyStr(<<"O", "K">>), PyList(<<GoogleResult(PyStr(<<"-", "2", "3">>), PyStr(<<"-", "4", "3">>))>>)))}
    \cup {Json(GoogleBody(PyStr(<<"O", "K">>), PyList(<<GoogleResult(PyNum(c[1]), PyNum(c[2]))>>))) :
            c \in SampleCoords}

NominatimResponses ==
    {NetworkError, HttpStatus(503), BadJson,
     Json(PyList(<< >>)),
     Json(PyNone),
     Json(PyNum(5)),
     Json(PyDict([error |-> PyStr(<<"b", "u", "s", "y">>)])),
     Json(PyList(<<PyStr(<<"x">>)>>)),
     Json(PyList(<<PyDict(<< >>)>>)),
     Json(PyList(<<PyDict([lat |-> PyStr(<<"a", "b", "c">>), lon |-> PyStr(<<"-", "4", "3">>)])>>)),
     Json(PyList(<<PyDict([lat |-> PyStr(<<"0">>), lon |-> PyStr(<<"-", "4", "3">>)])>>))}
    \cup {Json(PyList(<<PyDict([lat |-> PyStr(<<"-", "2", "3">>), lon |-> PyStr(<<"-", "4", "3">>)])>>))}
    \cup {Json(PyList(<<PyDict([lat |-> PyNum(c[1]), lon |-> PyNum(c[2])])>>)) :
            c \in SampleCoords}

----------------------------------------------------------------------------
(* The geocoder as a state machine: one call of geocode_address *)

GeoInit ==
    /\ \/ /\ address_parts \in AddressParts
          /\ address_full = PyStr(FormatAddress(address_parts))
       \/ /\ address_parts = NoParts
          /\ address_full \in {PyNone} \cup {PyStr(a) : a \in IrregularAddresses}
    /\ environ \in Environs
    /\ geo_pc = "ready"
    /\ geo_out = [exc |-> NoExc, ret |-> NoCoords]
    /\ http_log = << >>
    /\ simplified_address = [ok |-> FALSE, q |-> << >>]

\* geocode_address up to the fallback: the empty check and the primary provider
GeocodePrimary ==
    /\ geo_pc = "ready"
    /\ IF AddressMissing(address_full)
       THEN /\ geo_pc' = "returned"
            /\ geo_out' = [exc |-> NoExc, ret |-> NoCoords]
            /\ http_log' = << >>
       ELSE \E g \in GoogleResponses :
              LET out == _geocode_with_google(address_full.v, g)
              IN  /\ http_log' = out.calls
                  /\ IF out.exc # NoExc \/ (Truthy(out.ret[1]) /\ Truthy(out.ret[2]))
                     THEN /\ geo_pc' = "returned"
                          /\ geo_out' = [exc |-> out.exc, ret |-> out.ret]
                     ELSE /\ geo_pc' = "fallback"
                          /\ UNCHANGED geo_out
    /\ UNCHANGED <<address_full, address_parts, environ, simplified_address>>

\* _geocode_with_nominatim, lines 85-120: build the simplified query
GeocodeSimplify ==
    /\ geo_pc = "fallback"
    /\ simplified_address' = SimplifiedAddress(address_full.v)
    /\ geo_pc' = "query"
    /\ UNCHANGED <<address_full, address_parts, environ, geo_out, http_log>>

\* _geocode_with_nominatim, lines 106-153: ask the secondary provider
GeocodeFallback ==
    /\ geo_pc = "query"
    /\ \E n \in NominatimResponses :
         LET out == NominatimRequest(simplified_address, n)
         IN  /\ geo_out' = [exc |-> out.exc, ret |-> out.ret]
             /\ http_log' = http_log \o out.calls
    /\ geo_pc' = "returned"
    /\ UNCHANGED <<address_full, address_parts, environ, simplified_address>>


----------------------------------------------------------------------------
(* RSVP notifier: services/email_service.py.  Its strings are not taken    *)
(* apart, so they are plain strings.                                       *)

SENDER_EMAIL == "ferfrancodias@gmail.com"

Mail(from_email, to_emails, subject, html_content) ==
    [from_email |-> from_email, to_emails |-> to_emails,
     subject |-> subject, html_content |-> html_content]

\* what the email provider does with one send call
SendOutcomes == {"accepted", "unauthorized", "network_error"}

\* sg.send(message): returns on acceptance, raises otherwise
SendGridSend(outcome) ==
    CASE outcome = "accepted"      -> NoExc
      [] outcome = "unauthorized"  -> "UnauthorizedError"
      [] outcome = "network_error" -> "URLError"

\* a handler for network errors only
EmailCaughtNetworkOnly(e) == e = "URLError"

\* except Exception as e: whatever the send raises is caught
EmailCaught(e) == TRUE

\* the send without the try/except around it
TrySendUnguarded(message, outcome) ==
    [exc |-> SendGridSend(outcome), ret |-> SendGridSend(outcome) = NoExc,
     attempts |-> <<[message |-> message, outcome |-> outcome]>>]

\* the try/except around the send: the value returned, the exception let
\* through, and the send attempts made
TrySend(message, outcome) ==
    LET e == SendGridSend(outcome)
        attempts == <<[message |-> message, outcome |-> outcome]>>
    IN  IF e = NoExc THEN [exc |-> NoExc, ret |-> TRUE, attempts |-> attempts]
        ELSE IF EmailCaught(e) THEN [exc |-> NoExc, ret |-> FALSE, attempts |-> attempts]
        ELSE [exc |-> e, ret |-> FALSE, attempts |-> attempts]

send_rsvp_notification(event, attendee, outcome) ==
    TrySend(Mail(SENDER_EMAIL, event.host_email,
                 "Novo RSVP para " \o event.title,
                 <<"Nova Confirmação de Presença!", attendee.name, event.title,
                   "Adultos: " \o ToString(attendee.num_adults),
                   "Crianças: " \o ToString(attendee.num_children),
                   "WhatsApp: " \o attendee.whatsapp_number>>
                 \o (IF attendee.comments # ""
                     THEN <<"Comentários: " \o attendee.comments>> ELSE << >>)),
            outcome)

send_modification_notification(event, attendee, changes, outcome) ==
    TrySend(Mail(SENDER_EMAIL, event.host_email,
                 "RSVP Modificado - " \o event.title,
                 <<"RSVP Modificado", attendee.name, event.title,
                   "Adultos: " \o ToString(attendee.num_adults),
                   "Crianças: " \o ToString(attendee.num_children),
                   "Comentários: " \o attendee.comments>>),
            outcome)

send_cancellation_notification(event, attendee, reason, outcome) ==
    TrySend(Mail(SENDER_EMAIL, event.host_email,
                 "RSVP Cancelado - " \o event.title,
                 <<"RSVP Cancelado", attendee.name, event.title>>
                 \o (IF reason # "" THEN <<"Motivo: " \o reason>> ELSE << >>)),
            outcome)

----------------------------------------------------------------------------
(* The stored data the routes and the notifier work on *)

\* two events of one host; the first one's permissions are the host's choice
EventsWith(mods, cancels) ==
    <<[id |-> 1, slug |-> "festa", title |-> "Festa", host_email |-> "host@x.com",
       allow_modifications |-> mods, allow_cancellations |-> cancels],
      [id |-> 2, slug |-> "jantar", title |-> "Jantar", host_email |-> "host@x.com",
       allow_modifications |-> TRUE, allow_cancellations |-> TRUE]>>

\* the status column's default of a new Attendee row
DEFAULT_STATUS == "confirmed"

\* Attendee(event_id=..., whatsapp_number=..., name=..., num_adults=...,
\*          num_children=data.get("num_children", 0), comments=data.get("comments", ""))
NewAttendee(id, event_id, data) ==
    [id |-> id, event_id |-> event_id,
     whatsapp_number |-> data.whatsapp_number,
     name |-> data.name,
     num_adults |-> data.num_adults,
     num_children |-> IF "num_children" \in DOMAIN data THEN data.num_children ELSE 0,
     comments |-> IF "comments" \in DOMAIN data THEN data.comments ELSE "",
     status |-> DEFAULT_STATUS]

----------------------------------------------------------------------------
(* The notifier called on its own *)

\* how many notifier calls a behaviour makes
MaxCalls == 2

SampleAttendees ==
    {NewAttendee(1, 1, [whatsapp_number |-> "+5521999990001", name |-> "Maria",
                        num_adults |-> 2, num_children |-> c, comments |-> m]) :
        c \in {0, 1}, m \in {"", "vegetariana"}}

NotifyInit ==
    /\ events = EventsWith(TRUE, TRUE)
    /\ n_event \in {1, 2}
    /\ n_attendee \in SampleAttendees
    /\ notify_calls = << >>

NotifyCall(kind, out) ==
    [kind |-> kind, exc |-> out.exc, ret |-> out.ret, attempts |-> out.attempts]

NotifyCreated ==
    /\ Len(notify_calls) < MaxCalls
    /\ \E outcome \in SendOutcomes :
         notify_calls' = Append(notify_calls,
             NotifyCall("rsvp", send_rsvp_notification(events[n_event], n_attendee, outcome)))
    /\ UNCHANGED <<events, n_event, n_attendee>>

NotifyModified ==
    /\ Len(notify_calls) < MaxCalls
    /\ \E outcome \in SendOutcomes, changes \in {<< >>, [num_adults |-> 3]} :
         notify_calls' = Append(notify_calls,
             NotifyCall("modification",
                 send_modification_notification(events[n_event], n_attendee, changes, outcome)))
    /\ UNCHANGED <<events, n_event, n_attendee>>

NotifyCancelled ==
    /\ Len(notify_calls) < MaxCalls
    /\ \E outcome \in SendOutcomes, reason \in {"", "viagem"} :
         notify_calls' = Append(notify_calls,
             NotifyCall("cancellation",
                 send_cancellation_notification(events[n_event], n_attendee, reason, outcome)))
    /\ UNCHANGED <<events, n_event, n_attendee>>

----------------------------------------------------------------------------
(* The attendee routes: routes/attendees.py and RSVPResource in app.py *)

\* how many requests a behaviour serves; they may be in flight together
NumRequests == 2

Requests == 1..NumRequests

\* JSON bodies of POST /api/attendees/rsvp (create_rsvp): complete ones,
\* with and without the optional fields, for known events and an unknown
\* one, and one with required fields missing
CreateBodies ==
    {[event_slug |-> "festa", whatsapp_number |-> "+5521999990001", name |-> "Maria",
      num_adults |-> 2],
     [event_slug |-> "festa", whatsapp_number |-> "+5521999990002", name |-> "Ana",
      num_adults |-> 1, num_children |-> 1, comments |-> "vegetariana"],
     [event_slug |-> "jantar", whatsapp_number |-> "+5521999990001", name |-> "Maria",
      num_adults |-> 2],
     [event_slug |-> "nope", whatsapp_number |-> "+5521999990001", name |-> "Maria",
      num_adults |-> 2],
     [event_slug |-> "festa", name |-> "Maria"]}

\* JSON bodies of the RSVPResource endpoint
ResourceBodies ==
    {[event_slug |-> "festa", whatsapp_number |-> "+5521999990001", name |-> "Maria",
      num_adults |-> 2],
     [event_slug |-> "festa", name |-> "Maria"]}

BodiesOf(route) == IF route = "create_rsvp" THEN CreateBodies ELSE ResourceBodies

\* JSON bodies of PUT /modify
ModifyBodies ==
    {[event_slug |-> "festa", whatsapp_number |-> "+5521999990001", num_adults |-> 3,
      comments |-> "sem gluten"],
     [event_slug |-> "festa", whatsapp_number |-> "+5521999990001", name |-> "Maria S.",
      num_children |-> 2],
     [event_slug |-> "jantar", whatsapp_number |-> "+5521999990001", num_adults |-> 3,
      comments |-> "sem gluten"],
     [event_slug |-> "nope", whatsapp_number |-> "+5521999990001"],
     [event_slug |-> "festa", whatsapp_number |-> ""]}

\* JSON bodies of POST /cancel
CancelBodies ==
    {[event_slug |-> "festa", whatsapp_number |-> "+5521999990001"],
     [event_slug |-> "jantar", whatsapp_number |-> "+5521999990001"],
     [event_slug |-> "nope", whatsapp_number |-> "+5521999990001"],
     [whatsapp_number |-> "+5521999990001"]}

NoResponse == [code |-> 0, attendee_id |-> 0]

Response(code, attendee_id) == [code |-> code, attendee_id |-> attendee_id]

IdleRequest ==
    [pc |-> "idle", route |-> "none", data |-> << >>, event_id |-> 0,
     attendee_id |-> 0, response |-> NoResponse]

\* all(field in data for field in required)
HasRequired(data) ==
    {"event_slug", "whatsapp_number", "name", "num_adults"} \subseteq DOMAIN data

\* data.get(key) is present and truthy
GetTruthy(data, key) == key \in DOMAIN data /\ data[key] # ""

\* Event.query.filter_by(slug=slug).first(): the event's id, 0 for None
EventBySlug(slug) ==
    LET hits == {k \in 1..Len(events) : events[k].slug = slug}
    IN  IF hits = {} THEN 0 ELSE SetMin(hits)

\* Attendee.query.filter_by(event_id=..., whatsapp_number=...).first():
\* the row's position in the table, 0 for None
AttendeeOf(event_id, whatsapp_number) ==
    LET hits == {k \in 1..Len(attendees) :
                    /\ attendees[k].event_id = event_id
                    /\ attendees[k].whatsapp_number = whatsapp_number}
    IN  IF hits = {} THEN 0 ELSE SetMin(hits)

\* requests are numbered in the order they arrive
Arrives(r) ==
    /\ requests[r].pc = "idle"
    /\ \A q \in Requests : q < r => requests[q].pc # "idle"

Finish(r, route, data, response) ==
    requests' = [requests EXCEPT ![r] =
        [@ EXCEPT !.pc = "done", !.route = route, !.data = data, !.response = response]]

\* create_rsvp lines 12-30, RSVPResource.post lines 138-151: validation and
\* the lookups
CreateRsvpCheck(r) ==
    /\ Arrives(r)
    /\ \E route \in {"create_rsvp", "RSVPResource.post"} : \E data \in BodiesOf(route) :
         LET event_id == EventBySlug(data.event_slug)
         IN  IF ~HasRequired(data) THEN Finish(r, route, data, Response(400, 0))
             ELSE IF event_id = 0 THEN Finish(r, route, data, Response(404, 0))
             ELSE IF AttendeeOf(event_id, data.whatsapp_number) # 0
             THEN Finish(r, route, data, Response(400, 0))
             ELSE requests' = [requests EXCEPT ![r] =
                     [@ EXCEPT !.pc = "commit", !.route = route, !.data = data,
                               !.event_id = event_id]]
    /\ UNCHANGED <<events, attendees, outbox>>

\* create_rsvp lines 33-43, RSVPResource.post lines 153-162: the insert and
\* the commit, which gives the row its id.  The table accepts the row
\* whatever it already holds: the schema puts no uniqueness constraint on
\* (event, whatsapp_number), so the lookup of CreateRsvpCheck is the only
\* guard, and no lock is held between that lookup and this commit.
CreateRsvpCommit(r) ==
    /\ requests[r].pc = "commit"
    /\ LET id == Len(attendees) + 1
       IN  /\ attendees' = Append(attendees,
                               NewAttendee(id, requests[r].event_id, requests[r].data))
           /\ requests' = [requests EXCEPT ![r] = [@ EXCEPT !.pc = "notify", !.attendee_id = id]]
    /\ UNCHANGED <<events, outbox>>

Notification(r, kind, out) ==
    [req |-> r, kind |-> kind, ret |-> out.ret,
     message |-> out.attempts[1].message, outcome |-> out.attempts[1].outcome]

\* create_rsvp lines 46-48, RSVPResource.post lines 164-168: the
\* notification and the answer; an exception out of the notifier would
\* make the framework answer 500
CreateRsvpNotify(r) ==
    /\ requests[r].pc = "notify"
    /\ \E outcome \in SendOutcomes :
         LET out == send_rsvp_notification(events[requests[r].event_id],
                                           attendees[requests[r].attendee_id], outcome)
         IN  /\ outbox' = Append(outbox, Notification(r, "rsvp", out))
             /\ requests' = [requests EXCEPT ![r] =
                   [@ EXCEPT !.pc = "done",
                             !.response = IF out.exc = NoExc
                                          THEN Response(201, requests[r].attendee_id)
                                          ELSE Response(500, 0)]]
    /\ UNCHANGED <<events, attendees>>

\* the "Update fields" block of modify_rsvp, lines 129-142
UpdatedAttendee(row, data) ==
    [row EXCEPT
       !.name = IF "name" \in DOMAIN data THEN data.name ELSE @,
       !.num_adults = IF "num_adults" \in DOMAIN data THEN data.num_adults ELSE @,
       !.num_children = IF "num_children" \in DOMAIN data THEN data.num_children ELSE @,
       !.comments = IF "comments" \in DOMAIN data THEN data.comments ELSE @,
       !.status = IF @ = "cancelled" THEN "confirmed" ELSE @]

\* modify_rsvp with the allow_modifications test of lines 116-118 left out
ModifyRsvpUngated(r) ==
    /\ Arrives(r)
    /\ \E data \in ModifyBodies :
         LET event_id == EventBySlug(data.event_slug)
             k == AttendeeOf(event_id, data.whatsapp_number)
         IN  IF ~(GetTruthy(data, "event_slug") /\ GetTruthy(data, "whatsapp_number"))
             THEN Finish(r, "modify_rsvp", data, Response(400, 0)) /\ UNCHANGED attendees
             ELSE IF event_id = 0
             THEN Finish(r, "modify_rsvp", data, Response(404, 0)) /\ UNCHANGED attendees
             ELSE IF k = 0
             THEN Finish(r, "modify_rsvp", data, Response(404, 0)) /\ UNCHANGED attendees
             ELSE /\ attendees' = [attendees EXCEPT ![k] = UpdatedAttendee(@, data)]
                  /\ requests' = [requests EXCEPT ![r] =
                        [@ EXCEPT !.pc = "done", !.route = "modify_rsvp", !.data = data,
                                  !.event_id = event_id, !.attendee_id = attendees[k].id,
                                  !.response = Response(200, attendees[k].id)]]
    /\ UNCHANGED <<events, outbox>>

\* modify_rsvp, lines 103-159
ModifyRsvp(r) ==
    /\ Arrives(r)
    /\ \E data \in ModifyBodies :
         LET event_id == EventBySlug(data.event_slug)
             k == AttendeeOf(event_id, data.whatsapp_number)
         IN  IF ~(GetTruthy(data, "event_slug") /\ GetTruthy(data, "whatsapp_number"))
             THEN Finish(r, "modify_rsvp", data, Response(400, 0)) /\ UNCHANGED attendees
             ELSE IF event_id = 0
             THEN Finish(r, "modify_rsvp", data, Response(404, 0)) /\ UNCHANGED attendees
             ELSE IF ~events[event_id].allow_modifications
             THEN Finish(r, "modify_rsvp", data, Response(403, 0)) /\ UNCHANGED attendees
             ELSE IF k = 0
             THEN Finish(r, "modify_rsvp", data, Response(404, 0)) /\ UNCHANGED attendees
             ELSE /\ attendees' = [attendees EXCEPT ![k] = UpdatedAttendee(@, data)]
                  /\ requests' = [requests EXCEPT ![r] =
                        [@ EXCEPT !.pc = "done", !.route = "modify_rsvp", !.data = data,
                                  !.event_id = event_id, !.attendee_id = attendees[k].id,
                                  !.response = Response(200, attendees[k].id)]]
    /\ UNCHANGED <<events, outbox>>

\* cancel_rsvp, lines 166-195
CancelRsvp(r) ==
    /\ Arrives(r)
    /\ \E data \in CancelBodies :
         LET event_id == EventBySlug(data.event_slug)
             k == AttendeeOf(event_id, data.whatsapp_number)
         IN  IF ~(GetTruthy(data, "event_slug") /\ GetTruthy(data, "whatsapp_number"))
             THEN Finish(r, "cancel_rsvp", data, Response(400, 0)) /\ UNCHANGED attendees
             ELSE IF event_id = 0
             THEN Finish(r, "cancel_rsvp", data, Response(404, 0)) /\ UNCHANGED attendees
             ELSE IF ~events[event_id].allow_cancellations
             THEN Finish(r, "cancel_rsvp", data, Response(403, 0)) /\ UNCHANGED attendees
             ELSE IF k = 0
             THEN Finish(r, "cancel_rsvp", data, Response(404, 0)) /\ UNCHANGED attendees
             ELSE /\ attendees' = [attendees EXCEPT ![k] = [@ EXCEPT !.status = "cancelled"]]
                  /\ requests' = [requests EXCEPT ![r] =
                        [@ EXCEPT !.pc = "done", !.route = "cancel_rsvp", !.data = data,
                                  !.event_id = event_id, !.attendee_id = attendees[k].id,
                                  !.response = Response(200, attendees[k].id)]]
    /\ UNCHANGED <<events, outbox>>

\* what the attendee table holds when the requests start: nothing, or the
\* rows of two earlier RSVPs of one guest, the one for "jantar" cancelled since
\* (create_rsvp lines 33-43, cancel_rsvp line 191)
StoredAttendees ==
    {<< >>,
     <<NewAttendee(1, 1, [event_slug |-> "festa", whatsapp_number |-> "+5521999990001",
                          name |-> "Maria", num_adults |-> 2]),
       [NewAttendee(2, 2, [event_slug |-> "jantar", whatsapp_number |-> "+5521999990001",
                           name |-> "Maria", num_adults |-> 2])
           EXCEPT !.status = "cancelled"]>>}

RsvpInit ==
    /\ \E mods \in BOOLEAN, cancels \in BOOLEAN : events = EventsWith(mods, cancels)
    /\ attendees \in StoredAttendees
    /\ requests = [r \in Requests |-> IdleRequest]
    /\ outbox = << >>

----------------------------------------------------------------------------
(* Specifications: each runs one component, the others stay as they start *)

GeoIdle ==
    /\ address_full = PyNone
    /\ address_parts = NoParts
    /\ environ = [SENDGRID_API_KEY |-> <<"S", "G", ".", "k", "e", "y">>]
    /\ geo_pc = "ready"
    /\ geo_out = [exc |-> NoExc, ret |-> NoCoords]
    /\ http_log = << >>
    /\ simplified_address = [ok |-> FALSE, q |-> << >>]

NotifyIdle ==
    /\ n_event = 1
    /\ n_attendee = CHOOSE a \in SampleAttendees : TRUE
    /\ notify_calls = << >>

RsvpIdle ==
    /\ attendees = << >>
    /\ requests = [r \in Requests |-> IdleRequest]
    /\ outbox = << >>

notify_vars == <<n_event, n_attendee, notify_calls>>

rsvp_vars == <<attendees, requests, outbox>>

vars == <<geo_vars, events, notify_vars, rsvp_vars>>

SpecGeoInit == GeoInit /\ events = EventsWith(TRUE, TRUE) /\ NotifyIdle /\ RsvpIdle

SpecGeoNext ==
    \/ GeocodePrimary /\ UNCHANGED <<events, notify_vars, rsvp_vars>>
    \/ GeocodeSimplify /\ UNCHANGED <<events, notify_vars, rsvp_vars>>
    \/ GeocodeFallback /\ UNCHANGED <<events, notify_vars, rsvp_vars>>

SpecGeo == SpecGeoInit /\ [][SpecGeoNext]_vars

SpecNotifyInit == NotifyInit /\ GeoIdle /\ RsvpIdle

SpecNotifyNext ==
    \/ NotifyCreated /\ UNCHANGED <<geo_vars, rsvp_vars>>
    \/ NotifyModified /\ UNCHANGED <<geo_vars, rsvp_vars>>
    \/ NotifyCancelled /\ UNCHANGED <<geo_vars, rsvp_vars>>

SpecNotify == SpecNotifyInit /\ [][SpecNotifyNext]_vars

SpecRsvpInit == RsvpInit /\ GeoIdle /\ NotifyIdle

SpecRsvpNext ==
    \E r \in Requests :
        \/ CreateRsvpCheck(r) /\ UNCHANGED <<geo_vars, notify_vars>>
        \/ CreateRsvpCommit(r) /\ UNCHANGED <<geo_vars, notify_vars>>
        \/ CreateRsvpNotify(r) /\ UNCHANGED <<geo_vars, notify_vars>>
        \/ ModifyRsvp(r) /\ UNCHANGED <<geo_vars, notify_vars>>
        \/ CancelRsvp(r) /\ UNCHANGED <<geo_vars, notify_vars>>

SpecRsvp == SpecRsvpInit /\ [][SpecRsvpNext]_vars

----------------------------------------------------------------------------
(* Claims about the geocoder, checked under SpecGeo *)

GeoReturned == geo_pc = "returned"

CallsTo(provider) == {k \in 1..Len(http_log) : http_log[k].provider = provider}

\* the primary provider was asked and answered resp
PrimaryAnswered(resp) ==
    /\ http_log # << >>
    /\ http_log[1].provider = "google"
    /\ http_log[1].response = resp

\* a success envelope whose first candidate is at (lat, lon)
GoogleReports(lat, lon) ==
    Json(GoogleBody(PyStr(<<"O", "K">>), PyList(<<GoogleResult(PyNum(lat), PyNum(lon))>>)))

\* the valid range of the data model: latitude in [-90,90], longitude in [-180,180]
ValidPair(c) == c[1] >= -90 /\ c[1] <= 90 /\ c[2] >= -180 /\ c[2] <= 180

\* no credential: the variable is unset, empty or the placeholder
PrimaryUnavailable ==
    \/ "GOOGLE_GEOCODING_API_KEY" \notin DOMAIN environ
    \/ environ["GOOGLE_GEOCODING_API_KEY"] \in {<< >>, <<"S", "U", "A", "_", "C", "H", "A", "V", "E", "_", "A", "Q", "U", "I">>}

\* the primary provider's answers that are failures: network error, non-OK
\* status (of the HTTP exchange or of the envelope), no results, a result
\* outside the valid range
PrimaryFailures ==
    {NetworkError, HttpStatus(500),
     Json(PyDict([error_message |-> PyStr(<<"d", "e", "n", "i", "e", "d">>)])),
     Json(GoogleBody(PyStr(<<"Z", "E", "R", "O", "_", "R", "E", "S", "U", "L", "T", "S">>), PyList(<< >>))),
     Json(GoogleBody(PyStr(<<"O", "K">>), PyList(<< >>)))}
    \cup {GoogleReports(c[1], c[2]) : c \in {d \in SampleCoords : ~ValidPair(d)}}

PrimaryFailed == \E r \in PrimaryFailures : PrimaryAnswered(r)

\* the query the layout's fields give: "<street>[, <number>], <city>, <state>, Brasil"
ExpectedQuery(p) ==
    p.name
    \o (IF p.number # << >> THEN <<",", " ">> \o p.number ELSE << >>)
    \o <<",", " ">> \o p.city \o <<",", " ">> \o p.state \o <<",", " ", "B", "r", "a", "s", "i", "l">>

\* addresses of the input set with no street or no city to extract: no
\* text at all, no comma, nothing before the first comma, a street type
\* followed by blanks only, nothing before " - RJ", a lower-case state
LackingStreetOrCity ==
    \/ address_parts.name # << >> /\ address_parts.city = << >>
    \/ address_full \in {PyStr(<<" ">>),
                         PyStr(<<"R", "u", "a", " ", "d", "a", "s", " ", "F", "l", "o", "r", "e", "s", " ", "1", "2", "3", " ", "C", "e", "n", "t", "r", "o">>),
                         PyStr(<<",", " ", "1", "2", "3", ",", " ", "R", "i", "o", " ", "d", "e", " ", "J", "a", "n", "e", "i", "r", "o", " ", "-", " ", "R", "J">>),
                         PyStr(<<"R", "u", "a", " ", " ", ",", " ", "1", "2", ",", " ", "R", "i", "o", " ", "d", "e", " ", "J", "a", "n", "e", "i", "r", "o", " ", "-", " ", "R", "J">>),
                         PyStr(<<"R", "u", "a", " ", "d", "a", "s", " ", "F", "l", "o", "r", "e", "s", ",", " ", "1", "2", "3", ",", " ", "-", " ", "R", "J">>),
                         PyStr(<<"R", "u", "a", " ", "d", "a", "s", " ", "F", "l", "o", "r", "e", "s", ",", " ", "1", "2", "3", ",", " ", "R", "i", "o", " ", "d", "e", " ", "J", "a", "n", "e", "i", "r", "o", " ", "-", " ", "r", "j">>)}

\* C1: geocode_address never raises: whatever the providers answer, the call
\* ends by returning a pair, (None, None) when no valid coordinate was obtained.
C1_NeverRaises == GeoReturned => geo_out.exc = NoExc

\* C1: a call that ended after a provider answered with a null coordinate field
C1_Witness ==
    /\ GeoReturned
    /\ PrimaryAnswered(Json(GoogleBody(PyStr(<<"O", "K">>),
                                       PyList(<<GoogleResult(PyNone, PyNum(-43))>>))))

\* C2: when the primary provider reports a coordinate in the valid range (0
\* included), the call returns exactly that coordinate and the secondary
\* provider is not called.
C2_PrimaryValidWins ==
    \A c \in SampleCoords :
        (ValidPair(c) /\ PrimaryAnswered(GoogleReports(c[1], c[2])))
            => /\ GeoReturned
               /\ geo_out = [exc |-> NoExc, ret |-> Coords(c[1], c[2])]
               /\ CallsTo("nominatim") = {}

\* C2: the primary provider reported a point on the equator
C2_Witness == PrimaryAnswered(GoogleReports(0, -43))

\* C3: for a non-empty address with a street and a city, when the primary
\* provider is unavailable or fails, the call ends having asked the secondary
\* provider once, with the simplified query; with no credential the primary
\* provider is not contacted at all.
C3_FallbackCalled ==
    /\ PrimaryUnavailable => CallsTo("google") = {}
    /\ (GeoReturned /\ (PrimaryUnavailable \/ PrimaryFailed))
         => /\ (address_parts.name # << >> /\ address_parts.city # << >>)
                 => /\ Cardinality(CallsTo("nominatim")) = 1
                    /\ http_log[Len(http_log)].provider = "nominatim"
                    /\ http_log[Len(http_log)].query = ExpectedQuery(address_parts)
            /\ simplified_address.ok
                 => /\ Cardinality(CallsTo("nominatim")) = 1
                    /\ http_log[Len(http_log)].provider = "nominatim"
                    /\ http_log[Len(http_log)].query = simplified_address.q

\* C3: the primary provider failed on the network and the secondary was asked
C3_Witness ==
    /\ GeoReturned
    /\ PrimaryAnswered(NetworkError)
    /\ address_parts.city # << >>
    /\ CallsTo("nominatim") # {}

\* C4: for an address with no street or no city to extract, the secondary
\* provider is never called, and once the primary provider has failed or
\* been skipped the call returns (None, None).
C4_NoQueryNoCall ==
    LackingStreetOrCity
        => /\ CallsTo("nominatim") = {}
           /\ (GeoReturned /\ (PrimaryUnavailable \/ PrimaryFailed))
                => geo_out = [exc |-> NoExc, ret |-> NoCoords]

\* C4: a call for an address without a city returned after the primary failed
C4_Witness ==
    /\ GeoReturned
    /\ LackingStreetOrCity
    /\ PrimaryFailed
    /\ address_parts.name # << >>

\* C5: for an empty or null address the call returns (None, None) and makes
\* no outbound call to either provider.
C5_EmptyNoCall ==
    address_full \in {PyNone, PyStr(<< >>)}
        => /\ http_log = << >>
           /\ geo_pc \in {"ready", "returned"}
           /\ GeoReturned => geo_out = [exc |-> NoExc, ret |-> NoCoords]

\* C5: a call with a null address returned while a credential was configured
C5_Witness ==
    /\ GeoReturned
    /\ address_full = PyNone
    /\ ~PrimaryUnavailable

\* C6: every returned pair is (None, None) or a latitude in [-90,90] with a
\* longitude in [-180,180]; a primary result outside the range is not
\* returned and sends the call to the fallback.
C6_ResultInBounds ==
    /\ (GeoReturned /\ geo_out.exc = NoExc)
         => \/ geo_out.ret = NoCoords
            \/ /\ geo_out.ret[1].t = "num"
               /\ geo_out.ret[2].t = "num"
               /\ ValidPair(<<geo_out.ret[1].v, geo_out.ret[2].v>>)
    /\ \A c \in SampleCoords :
         (~ValidPair(c) /\ PrimaryAnswered(GoogleReports(c[1], c[2])))
            => /\ geo_out.ret # Coords(c[1], c[2])
               /\ \/ geo_pc \in {"fallback", "query"}
                  \/ /\ GeoReturned
                     /\ simplified_address.ok => CallsTo("nominatim") # {}

\* C6: the primary provider reported (200, 50) and the call has returned
C6_Witness ==
    /\ GeoReturned
    /\ PrimaryAnswered(GoogleReports(200, 50))
    /\ CallsTo("nominatim") # {}

ExampleAddress ==
    <<"R", "u", "a", " ", "d", "a", "s", " ", "F", "l", "o", "r", "e", "s", ",", " ", "1", "2", "3", ",", " ", "C", "e", "n", "t", "r", "o", ",", " ", "R", "i", "o", " ", "d", "e", " ", "J", "a", "n", "e", "i", "r", "o", " ", "-", " ", "R", "J", ",", " ", "C", "E", "P", " ", "2", "0", "0", "0", "0", "-", "0", "0", "0", ",", " ", "B", "r", "a", "s", "i", "l">>

\* C7: the simplified query is "<street>[, <number>], <city>, <state>, Brasil":
\* the street name without its leading street type (matched in any letter
\* case), the number when there is one, the city and state of
\* ", <city> - <XX>"; neighborhood and zip are left out.  For the example
\* address it is "das Flores, 123, Rio de Janeiro, RJ, Brasil".
C7_SimplifiedQuery ==
    /\ (geo_pc \in {"query", "returned"} /\ address_parts.name # << >> /\ simplified_address.ok)
         => simplified_address.q = ExpectedQuery(address_parts)
    /\ \A k \in CallsTo("nominatim") :
         /\ address_parts.name # << >> => http_log[k].query = ExpectedQuery(address_parts)
         /\ address_full = PyStr(ExampleAddress)
              => http_log[k].query = <<"d", "a", "s", " ", "F", "l", "o", "r", "e", "s", ",", " ", "1", "2", "3", ",", " ", "R", "i", "o", " ", "d", "e", " ", "J", "a", "n", "e", "i", "r", "o", ",", " ", "R", "J", ",", " ", "B", "r", "a", "s", "i", "l">>

\* C7: the secondary provider was asked about the example address
C7_Witness ==
    /\ address_full = PyStr(ExampleAddress)
    /\ CallsTo("nominatim") # {}

----------------------------------------------------------------------------
(* Claims about the notifier, checked under SpecNotify *)

\* C8: each notifier call returns False, and raises nothing, when the send
\* call throws or is rejected; it returns True only when the send was
\* accepted; and it attempts one send at most.
C8_NotifierReturnsBoolean ==
    \A k \in 1..Len(notify_calls) :
        LET c == notify_calls[k]
        IN  /\ c.exc = NoExc
            /\ Len(c.attempts) <= 1
            /\ c.ret = TRUE
                 => (Len(c.attempts) = 1 /\ c.attempts[1].outcome = "accepted")
            /\ (\E a \in 1..Len(c.attempts) : c.attempts[a].outcome # "accepted")
                 => c.ret = FALSE

\* C8: a cancellation notice was refused and a modification notice accepted
C8_Witness ==
    /\ \E k \in 1..Len(notify_calls) :
         /\ notify_calls[k].kind = "cancellation"
         /\ notify_calls[k].attempts[1].outcome = "unauthorized"
         /\ notify_calls[k].ret = FALSE
    /\ \E k \in 1..Len(notify_calls) :
         /\ notify_calls[k].kind = "modification"
         /\ notify_calls[k].ret = TRUE

----------------------------------------------------------------------------
(* Claims about the routes, checked under SpecRsvp *)

CreateRoutes == {"create_rsvp", "RSVPResource.post"}

\* request r is a create that passed validation
PassedValidation(r) ==
    /\ requests[r].route \in CreateRoutes
    /\ requests[r].pc \in {"commit", "notify", "done"}
    /\ requests[r].response.code \notin {400, 404}

NotificationsOf(r) == {k \in 1..Len(outbox) : outbox[k].req = r}

\* the attendee row of request r is in the table
Persisted(r) ==
    /\ requests[r].attendee_id \in 1..Len(attendees)
    /\ attendees[requests[r].attendee_id].id = requests[r].attendee_id
    /\ attendees[requests[r].attendee_id].whatsapp_number = requests[r].data.whatsapp_number
    /\ events[attendees[requests[r].attendee_id].event_id].slug = requests[r].data.event_slug

\* C9: the notification is attempted only once the RSVP is committed, and
\* its failure undoes nothing: a create request that passed validation has
\* its attendee stored and answers 201 with the attendee's id, whether the
\* notification returned True or False.
C9_CommitBeforeNotify ==
    /\ \A k \in 1..Len(outbox) : Persisted(outbox[k].req)
    /\ \A r \in Requests :
         PassedValidation(r)
            => /\ requests[r].pc = "commit" => NotificationsOf(r) = {}
               /\ requests[r].pc = "notify" => (Persisted(r) /\ NotificationsOf(r) = {})
               /\ requests[r].pc = "done"
                    => /\ Persisted(r)
                       /\ requests[r].response = Response(201, requests[r].attendee_id)
                       /\ Cardinality(NotificationsOf(r)) = 1

\* C9: a create request answered 201 although its notification returned False
C9_Witness ==
    \E r \in Requests :
        /\ requests[r].route \in CreateRoutes
        /\ requests[r].response.code = 201
        /\ \E k \in NotificationsOf(r) : outbox[k].ret = FALSE

\* the notification a route's change calls for
KindFor(route) ==
    CASE route \in CreateRoutes -> "rsvp"
      [] route = "modify_rsvp"  -> "modification"
      [] route = "cancel_rsvp"  -> "cancellation"

\* C10: every create, modify and cancel request that committed its change
\* was followed by one notification attempt of the matching kind to the
\* event's host.
C10_HostNotifiedOfEveryChange ==
    \A r \in Requests :
        (requests[r].pc = "done" /\ requests[r].response.code \in {200, 201})
            => Cardinality({k \in NotificationsOf(r) :
                              /\ outbox[k].kind = KindFor(requests[r].route)
                              /\ outbox[k].message.to_emails
                                    = events[requests[r].event_id].host_email}) = 1

\* C10: a modify request committed its change and was answered 200
C10_Witness ==
    \E r \in Requests :
        /\ requests[r].route = "modify_rsvp"
        /\ requests[r].response.code = 200

\* rows k and l are records of one WhatsApp number in one event
SamePair(k, l) ==
    /\ attendees[k].event_id = attendees[l].event_id
    /\ attendees[k].whatsapp_number = attendees[l].whatsapp_number

\* request r is a create for a known event with every required field
WellFormedCreate(r) ==
    /\ requests[r].route \in CreateRoutes
    /\ HasRequired(requests[r].data)
    /\ EventBySlug(requests[r].data.event_slug) # 0

\* C11: each event holds at most one attendee record per WhatsApp number,
\* however the create requests interleave, and a create request answered 400
\* for a pair that has a record added no record.
C11_OneRecordPerNumber ==
    /\ \A k, l \in 1..Len(attendees) : SamePair(k, l) => k = l
    /\ \A r \in Requests :
         (WellFormedCreate(r) /\ requests[r].response.code = 400)
            => /\ requests[r].attendee_id = 0
               /\ AttendeeOf(EventBySlug(requests[r].data.event_slug),
                             requests[r].data.whatsapp_number) # 0

\* C11: two create requests for one (event, whatsapp_number) pair were both
\* answered 201
C11_Witness ==
    \E r, q \in Requests :
        /\ r # q
        /\ WellFormedCreate(r) /\ WellFormedCreate(q)
        /\ requests[r].data.event_slug = requests[q].data.event_slug
        /\ requests[r].data.whatsapp_number = requests[q].data.whatsapp_number
        /\ requests[r].response.code = 201
        /\ requests[q].response.code = 201

\* this step answers request r
Answered(r) == requests[r].pc # "done" /\ requests'[r].pc = "done"

\* this step answers a request of the given route that names an event whose
\* flag forbids the change
Gated(r, route, flag) ==
    /\ Answered(r)
    /\ requests'[r].route = route
    /\ GetTruthy(requests'[r].data, "event_slug")
    /\ GetTruthy(requests'[r].data, "whatsapp_number")
    /\ EventBySlug(requests'[r].data.event_slug) # 0
    /\ ~events[EventBySlug(requests'[r].data.event_slug)][flag]

\* this step turns row k from cancelled to confirmed
Reactivated(k) ==
    /\ attendees[k].status = "cancelled"
    /\ attendees'[k].status = "confirmed"

\* C12: a modify_rsvp on an event that forbids modifications, and a
\* cancel_rsvp on an event that forbids cancellations, answer 403 and change
\* no attendee record; a cancelled attendee becomes confirmed again only
\* in a step of a modify_rsvp answered 200 on that attendee, whose event
\* allows modifications.
C12_PermissionGating ==
    [][/\ \A r \in Requests :
            (\/ Gated(r, "modify_rsvp", "allow_modifications")
             \/ Gated(r, "cancel_rsvp", "allow_cancellations"))
               => /\ requests'[r].response.code = 403
                  /\ attendees' = attendees
       /\ \A k \in 1..Len(attendees) :
            Reactivated(k)
               => /\ events[attendees[k].event_id].allow_modifications
                  /\ \E r \in Requests :
                        /\ Answered(r)
                        /\ requests'[r].route = "modify_rsvp"
                        /\ requests'[r].response = Response(200, attendees[k].id)]_vars

\* C12: a modify_rsvp was answered 403 on "festa", where the guest has a
\* record, and another modify_rsvp was answered 200 on the guest's record
\* for "jantar", which was stored cancelled and is confirmed now
C12_Witness ==
    \E r, q \in Requests :
        /\ requests[r].route = "modify_rsvp"
        /\ requests[r].response.code = 403
        /\ AttendeeOf(EventBySlug(requests[r].data.event_slug),
                      requests[r].data.whatsapp_number) # 0
        /\ requests[q].route = "modify_rsvp"
        /\ requests[q].response.code = 200
        /\ attendees \notin StoredAttendees
        /\ Len(attendees) = 2
        /\ requests[q].attendee_id = 2
        /\ attendees[2].status = "confirmed"

====
